---- MODULE Spec2Model ----
(***************************************************************************)
(* Model of glue_metadata_crawler.py: one run of main() against one table  *)
(* of the Glue Data Catalog.  Python dicts are functions over string keys, *)
(* top-level values of the metadata document are tagged records, a comment *)
(* is a sequence of characters so that str.strip() is really computed.     *)
(***************************************************************************)
EXTENDS Integers, Sequences, FiniteSets, TLC

VARIABLES glue_table, new_values_file, pc, default_table_metadata,
          update_table_metadata, files, calls, printed, logged

vars == <<glue_table, new_values_file, pc, default_table_metadata,
          update_table_metadata, files, calls, printed, logged>>

(***************************************************************************)
(* Bounds and the universe of inputs.                                      *)
(***************************************************************************)
MaxCols == 2

ColumnNames == {"a", "b"}

\* the column name that may also be the name of a top-level field
TopLevelNames == {"a"}

SP == " "

\* comments the catalog may hold: "", " ", "k", " k"
CommentTexts == {<<>>, <<SP>>, <<"k">>, <<SP, "k">>}

\* replacement comments new_values.json may hold: "n", " "
OverrideTexts == {<<"n">>, <<SP>>}

TypeOf(name) == IF name = "a" THEN "int" ELSE "string"

(***************************************************************************)
(* Python values.                                                          *)
(***************************************************************************)
None == [t |-> "null"]
Str(s) == [t |-> "str", v |-> s]
Dict(d) == [t |-> "dict", v |-> d]
List(l) == [t |-> "list", v |-> l]

EmptyDict == <<>>

\* dict.get(key, default)
Get(d, key, default) == IF key \in DOMAIN d THEN d[key] ELSE default

\* d[key] = value
Put(d, key, value) == (key :> value) @@ d

(***************************************************************************)
(* glue_metadata_config.  The repository ships empty placeholders; three   *)
(* distinct values stand for a deployment's settings.                      *)
(***************************************************************************)
DATABASE_NAME == "sales"
TABLE_NAME == "orders"
CATALOG_ID == "catalog"

(***************************************************************************)
(* str.strip() and the test `comment is None or comment.strip() == ""`.    *)
(***************************************************************************)
RECURSIVE LStrip(_)
LStrip(s) == IF s # <<>> /\ Head(s) = SP THEN LStrip(Tail(s)) ELSE s

RECURSIVE RStrip(_)
RStrip(s) ==
    IF s # <<>> /\ s[Len(s)] = SP THEN RStrip(SubSeq(s, 1, Len(s) - 1)) ELSE s

Strip(s) == RStrip(LStrip(s))

\* column.get('Comment') is None or column.get('Comment').strip() == ""
CommentBlank(column) ==
    "Comment" \notin DOMAIN column \/ Strip(column.Comment) = <<>>

\* metadata.get('StorageDescriptor', {}).get('Columns', [])
ColumnsOf(metadata) ==
    IF "StorageDescriptor" \in DOMAIN metadata
    THEN Get(metadata["StorageDescriptor"].v, "Columns", <<>>)
    ELSE <<>>

\* [key for key, value in metadata.items() if value is None]
NullKeys(metadata) == List({key \in DOMAIN metadata : metadata[key] = None})

(***************************************************************************)
(* write_metadata_and_missing_values                                       *)
(***************************************************************************)
\* `name in missing_values` raises TypeError when missing_values is None
ContainsRaises(missing_values) == missing_values.t = "null"

\* `name in missing_values` for a list or a dict
Contains(name, missing_values) ==
    CASE missing_values.t = "list" -> name \in missing_values.v
      [] missing_values.t = "dict" -> name \in DOMAIN missing_values.v
      [] OTHER -> FALSE

\* default_values after the first n columns of the first loop
RECURSIVE DefaultValues(_, _)
DefaultValues(columns, n) ==
    IF n = 0 THEN EmptyDict
    ELSE LET column == columns[n]
             comment == IF CommentBlank(column) THEN <<>> ELSE column.Comment
         IN  Put(DefaultValues(columns, n - 1), column.Name, comment)

\* variant of TagCondition: the test `name in missing_values` is left out
TagConditionWithoutNullCheck(column, missing_values) == CommentBlank(column)

\* the condition under which the first loop tags a column
TagCondition(column, missing_values) ==
    Contains(column.Name, missing_values) /\ CommentBlank(column)

\* missing_columns after the first n columns of the first loop
RECURSIVE TaggedColumns(_, _, _)
TaggedColumns(columns, missing_values, n) ==
    IF n = 0 THEN EmptyDict
    ELSE LET column == columns[n]
             before == TaggedColumns(columns, missing_values, n - 1)
         IN  IF TagCondition(column, missing_values)
             THEN Put(before, column.Name, "default comment missing")
             ELSE before

\* missing_columns after the second loop
MissingColumns(columns, missing_values) ==
    LET default_values == DefaultValues(columns, Len(columns))
        tagged == TaggedColumns(columns, missing_values, Len(columns))
        blank == {c \in DOMAIN default_values : default_values[c] = <<>>}
    IN  [c \in DOMAIN tagged \cup blank |->
            IF c \in DOMAIN tagged THEN tagged[c] ELSE ""]

\* the JSON document handed to json.dump
SnapshotData(metadata, missing_values) ==
    LET columns == ColumnsOf(metadata)
    IN  [default_values |-> DefaultValues(columns, Len(columns)),
         missing_columns |-> MissingColumns(columns, missing_values)]

NoFile == [t |-> "absent"]

WriteCall(output_file, ok) ==
    [op |-> "write_metadata_and_missing_values", file |-> output_file, ok |-> ok]

\* variant of WriteHandler: the exception is raised again
WriteHandlerReraising(error) == error

\* what the except clause of write_metadata_and_missing_values lets out
WriteHandler(error) == "none"

\* The whole function.  fs_ok: open() and json.dump succeed.  The result
\* names the exception that leaves the function, what was printed, the new
\* content of output_file (NoFile: not written) and the call made.
WriteMetadataAndMissingValues(metadata, missing_values, output_file, fs_ok) ==
    LET error ==
            IF ColumnsOf(metadata) # <<>> /\ ContainsRaises(missing_values)
            THEN "TypeError"
            ELSE IF ~fs_ok THEN "OSError" ELSE "none"
    IN  [raised |-> IF error = "none" THEN "none" ELSE WriteHandler(error),
         printed |-> error,
         content |-> IF error = "none"
                     THEN SnapshotData(metadata, missing_values)
                     ELSE NoFile,
         call |-> WriteCall(output_file, error = "none")]

(***************************************************************************)
(* get_table_metadata                                                      *)
(***************************************************************************)
GetTableCall(result) ==
    [op |-> "get_table", DatabaseName |-> DATABASE_NAME, Name |-> TABLE_NAME,
     CatalogId |-> CATALOG_ID, result |-> result]

\* The whole function.  response: what glue_client.get_table does, "ok" or
\* the exception it raises; table: the catalog's entry; fs_ok as above.
GetTableMetadata(response, table, fs_ok) ==
    IF response = "ok"
    THEN LET metadata == table
             missing_values == NullKeys(metadata)
             w == WriteMetadataAndMissingValues(metadata, missing_values,
                                                "default_metadata.json", fs_ok)
         IN  [ret |-> IF w.raised = "none" THEN metadata ELSE None,
              printed |-> IF w.raised # "none" THEN <<w.printed, w.raised>>
                          ELSE IF w.printed # "none" THEN <<w.printed>>
                          ELSE <<>>,
              content |-> w.content,
              calls |-> <<GetTableCall(response), w.call>>]
    ELSE [ret |-> None,
          printed |-> <<response>>,
          content |-> NoFile,
          calls |-> <<GetTableCall(response)>>]

(***************************************************************************)
(* add_update_missing_values                                               *)
(***************************************************************************)
\* missing_columns after the first loop: the names with a blank comment
BlankColumns(columns) ==
    [name \in {columns[i].Name : i \in {j \in 1..Len(columns) :
                                           CommentBlank(columns[j])}} |-> <<>>]

\* variant of NothingToUpdate: the early return is never taken
NothingToUpdateNeverTaken(missing_columns) == FALSE

\* `if not missing_columns`
NothingToUpdate(missing_columns) == DOMAIN missing_columns = {}

\* the comment the second loop gives column `name`
NewComment(name, missing_columns, new_values) ==
    IF name \in DOMAIN new_values THEN new_values[name] ELSE missing_columns[name]

\* variant of MergeColumns: every column the overrides name is overwritten
MergeColumnsOverwritingDocumented(columns, new_values) ==
    [i \in 1..Len(columns) |->
        IF columns[i].Name \in DOMAIN new_values
        THEN Put(columns[i], "Comment", new_values[columns[i].Name])
        ELSE IF CommentBlank(columns[i])
        THEN Put(columns[i], "Comment", <<>>)
        ELSE columns[i]]

\* variant of MergeColumns: the second loop ends after its first column name
MergeColumnsFirstNameOnly(columns, new_values) ==
    LET blank == {j \in 1..Len(columns) : CommentBlank(columns[j])}
        first == IF blank = {} THEN 0
                 ELSE CHOOSE j \in blank : \A k \in blank : j <= k
    IN  [i \in 1..Len(columns) |->
            IF first # 0 /\ columns[i].Name = columns[first].Name
            THEN Put(columns[i], "Comment",
                     IF columns[i].Name \in DOMAIN new_values
                     THEN new_values[columns[i].Name] ELSE <<>>)
            ELSE columns[i]]

\* metadata['StorageDescriptor']['Columns'] after the second loop
MergeColumns(columns, new_values) ==
    LET missing_columns == BlankColumns(columns)
    IN  [i \in 1..Len(columns) |->
            IF columns[i].Name \in DOMAIN missing_columns
            THEN Put(columns[i], "Comment",
                     NewComment(columns[i].Name, missing_columns, new_values))
            ELSE columns[i]]

\* metadata with its column list mutated in place
WithColumns(metadata, columns) ==
    [metadata EXCEPT !["StorageDescriptor"] =
        Dict([@.v EXCEPT !["Columns"] = columns])]

\* variant of TableInput: a further field of the table is sent
TableInputWithTableType(table_name, metadata) ==
    [Name |-> table_name,
     StorageDescriptor |-> [Columns |-> ColumnsOf(metadata)],
     TableType |-> "EXTERNAL_TABLE"]

TableInput(table_name, metadata) ==
    [Name |-> table_name,
     StorageDescriptor |-> [Columns |-> ColumnsOf(metadata)]]

UpdateTableCall(database_name, table_input, result) ==
    [op |-> "update_table", DatabaseName |-> database_name,
     TableInput |-> table_input, result |-> result]

OpenCall(ok) == [op |-> "open", file |-> "new_values.json", ok |-> ok]

\* variant of UpdateTableRaises: the error of update_table is swallowed
UpdateTableErrorSwallowed(result) == "none"

\* the exception that leaves the call glue_client.update_table(...)
UpdateTableRaises(result) == IF result = "ok" THEN "none" ELSE result

\* The whole function.  file: new_values.json (NoFile: open or json.load
\* fails); update_result: what glue_client.update_table does.  `metadata`
\* in the result is the caller's object after the in-place mutation.
AddUpdateMissingValues(database_name, table_name, metadata, file, update_result) ==
    IF metadata = None
    THEN [raised |-> "TypeError", ret |-> None, metadata |-> metadata,
          printed |-> <<>>, calls |-> <<>>]
    ELSE
    LET missing_columns == BlankColumns(ColumnsOf(metadata))
    IN  IF NothingToUpdate(missing_columns)
        THEN [raised |-> "none", ret |-> EmptyDict, metadata |-> metadata,
              printed |-> <<"no missing columns">>, calls |-> <<>>]
        ELSE IF file = NoFile
        THEN [raised |-> "OSError", ret |-> None, metadata |-> metadata,
              printed |-> <<>>, calls |-> <<OpenCall(FALSE)>>]
        ELSE
        LET new_values == file.v
            merged == WithColumns(metadata,
                                  MergeColumns(ColumnsOf(metadata), new_values))
            table_input == TableInput(table_name, merged)
            raised == UpdateTableRaises(update_result)
        IN  [raised |-> raised,
             ret |-> IF raised = "none" THEN merged ELSE None,
             metadata |-> merged,
             printed |-> IF raised = "none" THEN <<"updated">> ELSE <<>>,
             calls |-> <<OpenCall(TRUE),
                         UpdateTableCall(database_name, table_input,
                                         update_result)>>]

(***************************************************************************)
(* The environment of one run: the catalog's entry for the table and the   *)
(* override file.                                                          *)
(***************************************************************************)
Absent == [t |-> "absent"]

Unbound == [t |-> "unbound"]

Columns ==
    {[Name |-> n, Type |-> TypeOf(n)] : n \in ColumnNames}
    \cup {[Name |-> n, Type |-> TypeOf(n), Comment |-> c] :
             n \in ColumnNames, c \in CommentTexts}

ColumnLists == UNION {[1..n -> Columns] : n \in 0..MaxCols}

\* values of a top-level field 'missing_columns' of the metadata document
MissingColumnsFields == {Absent, None, List(TopLevelNames)}

\* a metadata document: the table's name, its columns, the top-level fields
\* whose value is null, and possibly a field 'missing_columns'
Table(columns, null_fields, missing_columns) ==
    ("Name" :> Str(TABLE_NAME))
    @@ ("StorageDescriptor" :> Dict([Columns |-> columns]))
    @@ [k \in null_fields |-> None]
    @@ (IF missing_columns = Absent THEN EmptyDict
        ELSE ("missing_columns" :> missing_columns))

OverrideMaps == UNION {[S -> OverrideTexts] : S \in SUBSET ColumnNames}

GetTableResponses(table) ==
    IF table = None THEN {"EntityNotFoundException", "Exception"}
    ELSE {"ok", "Exception"}

\* update_table succeeds or raises; the code treats every exception alike
UpdateTableResults == {"ok", "ConflictError"}

Init ==
    /\ \/ glue_table = None
       \/ \E columns \in ColumnLists, null_fields \in SUBSET TopLevelNames,
             missing_columns \in MissingColumnsFields :
               glue_table = Table(columns, null_fields, missing_columns)
    /\ \/ new_values_file = NoFile
       \/ \E m \in OverrideMaps : new_values_file = Dict(m)
    /\ pc = "start"
    /\ default_table_metadata = Unbound
    /\ update_table_metadata = Unbound
    /\ files = ("default_metadata.json" :> NoFile)
               @@ ("updated_metadata.json" :> NoFile)
    /\ calls = <<>>
    /\ printed = <<>>
    /\ logged = "none"

(***************************************************************************)
(* main                                                                    *)
(***************************************************************************)
\* variant of UpdatedMissingValues: the null top-level fields, as in the fetch
UpdatedMissingValuesFromNullFields(metadata) == NullKeys(metadata)

\* update_table_metadata.get('missing_columns', {})
UpdatedMissingValues(metadata) == Get(metadata, "missing_columns", Dict(EmptyDict))

\* line 228
MainGetTableMetadata ==
    /\ pc = "start"
    /\ \E response \in GetTableResponses(glue_table), fs_ok \in BOOLEAN :
         \E r \in {GetTableMetadata(response, glue_table, fs_ok)} :
             /\ default_table_metadata' = r.ret
             /\ files' = IF r.content = NoFile THEN files
                         ELSE [files EXCEPT !["default_metadata.json"] = r.content]
             /\ calls' = calls \o r.calls
             /\ printed' = printed \o r.printed
    /\ pc' = "fetched"
    /\ UNCHANGED <<glue_table, new_values_file, update_table_metadata, logged>>

\* lines 236-237, and the except clause of main when the call raises
MainAddUpdateMissingValues ==
    /\ pc = "fetched"
    /\ \E update_result \in UpdateTableResults :
         \E r \in {AddUpdateMissingValues(DATABASE_NAME, TABLE_NAME,
                                         default_table_metadata,
                                         new_values_file, update_result)} :
             /\ default_table_metadata' = r.metadata
             /\ calls' = calls \o r.calls
             /\ printed' = printed \o r.printed
             /\ IF r.raised = "none"
                THEN /\ update_table_metadata' = r.ret
                     /\ pc' = "merged"
                     /\ logged' = logged
                ELSE /\ update_table_metadata' = update_table_metadata
                     /\ pc' = "failed"
                     /\ logged' = r.raised
    /\ UNCHANGED <<glue_table, new_values_file, files>>

\* lines 239-240, and the except clause of main when the call raises
MainWriteUpdatedMetadata ==
    /\ pc = "merged"
    /\ \E fs_ok \in BOOLEAN :
         \E w \in {WriteMetadataAndMissingValues(
                      update_table_metadata,
                      UpdatedMissingValues(update_table_metadata),
                      "updated_metadata.json", fs_ok)} :
             /\ files' = IF w.content = NoFile THEN files
                         ELSE [files EXCEPT !["updated_metadata.json"] = w.content]
             /\ calls' = Append(calls, w.call)
             /\ printed' = IF w.printed = "none" THEN printed
                           ELSE Append(printed, w.printed)
             /\ IF w.raised = "none"
                THEN pc' = "done" /\ logged' = logged
                ELSE pc' = "failed" /\ logged' = w.raised
    /\ UNCHANGED <<glue_table, new_values_file, default_table_metadata,
                   update_table_metadata>>

Next ==
    \/ MainGetTableMetadata
    \/ MainAddUpdateMissingValues
    \/ MainWriteUpdatedMetadata

Spec == Init /\ [][Next]_vars

(***************************************************************************)
(* Vocabulary of the properties.                                           *)
(***************************************************************************)
WRITE == "write_metadata_and_missing_values"

BEFORE == "default_metadata.json"

AFTER == "updated_metadata.json"

IsCall(i, op) == calls[i].op = op

FetchFailedAt(i) == IsCall(i, "get_table") /\ calls[i].result # "ok"

FetchSucceeded == \E i \in DOMAIN calls : IsCall(i, "get_table") /\ calls[i].result = "ok"

OverrideLoadFailedAt(i) == IsCall(i, "open") /\ ~calls[i].ok

OverridesLoaded == \E i \in DOMAIN calls : IsCall(i, "open") /\ calls[i].ok

UpdateFailedAt(i) == IsCall(i, "update_table") /\ calls[i].result # "ok"

UpdateCalled == \E i \in DOMAIN calls : IsCall(i, "update_table")

SnapshotWriteAt(i, file) == IsCall(i, WRITE) /\ calls[i].file = file

SnapshotFailed(file) ==
    \E i \in DOMAIN calls : SnapshotWriteAt(i, file) /\ ~calls[i].ok

PastMerge == pc \in {"merged", "done", "failed"}

FetchedColumns == ColumnsOf(glue_table)

CurrentColumns == ColumnsOf(default_table_metadata)

UniqueNames(columns) ==
    \A i, j \in DOMAIN columns : i # j => columns[i].Name # columns[j].Name

BlankNames(columns) ==
    {columns[i].Name : i \in {j \in DOMAIN columns : CommentBlank(columns[j])}}

DocumentedNames(columns) ==
    {columns[i].Name : i \in {j \in DOMAIN columns : ~CommentBlank(columns[j])}}

\* the top-level fields of the fetched document whose value is null
NullFieldNames == {k \in DOMAIN glue_table : glue_table[k].t = "null"}

\* a column's comment as a snapshot shows it
ShownComment(column) == IF CommentBlank(column) THEN <<>> ELSE column.Comment

(***************************************************************************)
(* C1: once a step has failed fatally (get_table, the load of the override *)
(* file, update_table), no later step's effect occurs: no snapshot write   *)
(* and no update_table call after a failed fetch, no update_table call and *)
(* no 'after' snapshot after a failed override load, no 'after' snapshot   *)
(* after a failed update_table.                                            *)
(***************************************************************************)
NoLaterStepAfterFailure ==
    \A i \in DOMAIN calls :
        /\ FetchFailedAt(i) =>
              /\ \A j \in DOMAIN calls :
                    j > i => calls[j].op \notin {WRITE, "open", "update_table"}
              /\ files[BEFORE] = NoFile /\ files[AFTER] = NoFile
        /\ OverrideLoadFailedAt(i) =>
              /\ \A j \in DOMAIN calls :
                    j > i => calls[j].op \notin {WRITE, "update_table"}
              /\ files[AFTER] = NoFile
        /\ UpdateFailedAt(i) =>
              /\ \A j \in DOMAIN calls : j > i => calls[j].op # WRITE
              /\ files[AFTER] = NoFile

FailedUpdateEndsRun ==
    /\ pc = "failed"
    /\ \E i \in DOMAIN calls : UpdateFailedAt(i)
    /\ files[BEFORE] # NoFile

(***************************************************************************)
(* C2: when the fetch fails, the run ends in Failed and the failure main   *)
(* reports is the fetch's own error.                                       *)
(***************************************************************************)
FetchErrorIsReported ==
    \A i \in DOMAIN calls :
        (FetchFailedAt(i) /\ PastMerge) =>
            pc = "failed" /\ logged = calls[i].result

(***************************************************************************)
(* C3: when no fetched column is undocumented, update_table is never       *)
(* called and the override file is not read: the run succeeds whatever     *)
(* the state of that file.                                                 *)
(***************************************************************************)
NoUpdateWhenAllDocumented ==
    (FetchSucceeded /\ PastMerge /\ BlankNames(FetchedColumns) = {}) =>
        /\ ~UpdateCalled
        /\ \A i \in DOMAIN calls : ~IsCall(i, "open")
        /\ pc # "failed"
        /\ logged = "none"

AllDocumentedRunDone ==
    /\ pc = "done"
    /\ FetchSucceeded
    /\ FetchedColumns # <<>>
    /\ BlankNames(FetchedColumns) = {}
    /\ new_values_file = NoFile

(***************************************************************************)
(* C4: for unique column names, after the merge every column that was      *)
(* undocumented has the override value of its name if there is one and ""  *)
(* otherwise, every documented column is as it was, even when the          *)
(* overrides name it, and names, types and order are as fetched.           *)
(***************************************************************************)
MergeDone ==
    /\ FetchSucceeded
    /\ PastMerge
    /\ OverridesLoaded \/ BlankNames(FetchedColumns) = {}

LoadedOverrides == IF OverridesLoaded THEN new_values_file.v ELSE EmptyDict

MergeFillsOnlyUndocumented ==
    (MergeDone /\ UniqueNames(FetchedColumns)) =>
        /\ Len(CurrentColumns) = Len(FetchedColumns)
        /\ \A i \in DOMAIN FetchedColumns :
              LET old == FetchedColumns[i]
                  new == CurrentColumns[i]
              IN  /\ new.Name = old.Name
                  /\ new.Type = old.Type
                  /\ CommentBlank(old) =>
                        /\ "Comment" \in DOMAIN new
                        /\ new.Comment =
                              IF old.Name \in DOMAIN LoadedOverrides
                              THEN LoadedOverrides[old.Name]
                              ELSE <<>>
                  /\ ~CommentBlank(old) => new = old

MergedWithOverrideForDocumented ==
    /\ MergeDone
    /\ OverridesLoaded
    /\ UniqueNames(FetchedColumns)
    /\ \E i, j \in DOMAIN FetchedColumns :
          /\ CommentBlank(FetchedColumns[i])
          /\ ~CommentBlank(FetchedColumns[j])
          /\ {FetchedColumns[i].Name, FetchedColumns[j].Name}
                \subseteq DOMAIN LoadedOverrides

(***************************************************************************)
(* C5 as stated: for every metadata document, the keys of the report of    *)
(* the 'before' snapshot are exactly the undocumented columns, a column    *)
(* is tagged "default comment missing" iff it is undocumented and its name *)
(* is a null top-level field, and every other undocumented column is       *)
(* tagged "".                                                              *)
(***************************************************************************)
ReportMatches(report, columns) ==
    /\ DOMAIN report = BlankNames(columns)
    /\ \A name \in DOMAIN report :
          /\ report[name] \in {"default comment missing", ""}
          /\ report[name] = "default comment missing"
                <=> name \in NullFieldNames

ReportIsUndocumentedColumns ==
    files[BEFORE] # NoFile =>
        ReportMatches(files[BEFORE].missing_columns, FetchedColumns)

(***************************************************************************)
(* C5 amended: the same, for every metadata document whose column names    *)
(* are unique; no documented column appears in the report.                 *)
(***************************************************************************)
ReportIsUndocumentedColumnsIfUnique ==
    (files[BEFORE] # NoFile /\ UniqueNames(FetchedColumns)) =>
        /\ ReportMatches(files[BEFORE].missing_columns, FetchedColumns)
        /\ DOMAIN files[BEFORE].missing_columns
              \cap DocumentedNames(FetchedColumns) = {}

ReportWithBothTags ==
    /\ files[BEFORE] # NoFile
    /\ UniqueNames(FetchedColumns)
    /\ \E a, b \in DOMAIN files[BEFORE].missing_columns :
          /\ files[BEFORE].missing_columns[a] = "default comment missing"
          /\ files[BEFORE].missing_columns[b] = ""

(***************************************************************************)
(* C6: every update request holds exactly the table name and the full      *)
(* merged column list, all fetched columns in their order, and no other    *)
(* field; it names the database and the table that were fetched.           *)
(***************************************************************************)
UpdateRequestIsMinimal ==
    \A i \in DOMAIN calls :
        IsCall(i, "update_table") =>
            LET request == calls[i]
                sent == request.TableInput.StorageDescriptor.Columns
            IN  /\ DOMAIN request.TableInput = {"Name", "StorageDescriptor"}
                /\ DOMAIN request.TableInput.StorageDescriptor = {"Columns"}
                /\ \E g \in DOMAIN calls :
                      /\ IsCall(g, "get_table") /\ g < i
                      /\ calls[g].result = "ok"
                      /\ request.DatabaseName = calls[g].DatabaseName
                      /\ request.TableInput.Name = calls[g].Name
                /\ sent = CurrentColumns
                /\ Len(sent) = Len(FetchedColumns)
                /\ \A k \in DOMAIN sent :
                      /\ sent[k].Name = FetchedColumns[k].Name
                      /\ sent[k].Type = FetchedColumns[k].Type
                      /\ ~CommentBlank(FetchedColumns[k])
                            /\ UniqueNames(FetchedColumns)
                            => sent[k] = FetchedColumns[k]

UpdateSentForTableWithOtherFields ==
    /\ UpdateCalled
    /\ DOMAIN glue_table \ {"Name", "StorageDescriptor"} # {}
    /\ BlankNames(FetchedColumns) # {}
    /\ DocumentedNames(FetchedColumns) # {}

(***************************************************************************)
(* C7: a failed snapshot write never fails the run.  After a failed        *)
(* 'before' write the fetch still returns the metadata and the merge and   *)
(* the update still execute; after a failed 'after' write the run ends as  *)
(* successful.                                                             *)
(***************************************************************************)
SnapshotFailureIsNotFatal ==
    /\ SnapshotFailed(BEFORE) =>
          /\ default_table_metadata # None
          /\ pc = "fetched" => default_table_metadata = glue_table
          /\ logged # "TypeError"
          /\ (PastMerge /\ BlankNames(FetchedColumns) # {}
                /\ new_values_file # NoFile)
                => OverridesLoaded /\ UpdateCalled
    /\ SnapshotFailed(AFTER) => pc = "done" /\ logged = "none"

RunDoneWithBothSnapshotsFailed ==
    /\ pc = "done"
    /\ SnapshotFailed(BEFORE)
    /\ SnapshotFailed(AFTER)
    /\ UpdateCalled

(***************************************************************************)
(* C8: every snapshot written, 'before' and 'after', the run with nothing  *)
(* to update included, has default_values with exactly the table's column  *)
(* names as keys, each mapped to the comment of a column of that name, ""  *)
(* if it is undocumented.                                                  *)
(***************************************************************************)
DefaultValuesMatch(default_values, columns) ==
    /\ DOMAIN default_values = {columns[i].Name : i \in DOMAIN columns}
    /\ \A name \in DOMAIN default_values :
          \E i \in DOMAIN columns :
              /\ columns[i].Name = name
              /\ default_values[name] = ShownComment(columns[i])

SnapshotsListEveryColumn ==
    /\ files[BEFORE] # NoFile =>
          DefaultValuesMatch(files[BEFORE].default_values, FetchedColumns)
    /\ files[AFTER] # NoFile =>
          DefaultValuesMatch(files[AFTER].default_values, CurrentColumns)

(***************************************************************************)
(* C9: the merge is idempotent: applied again with the same overrides to   *)
(* the metadata it produced, it leaves that metadata as it is.             *)
(***************************************************************************)
MergeAgain ==
    AddUpdateMissingValues(DATABASE_NAME, TABLE_NAME, default_table_metadata,
                           new_values_file, "ok")

MergeIsIdempotent ==
    (MergeDone /\ OverridesLoaded) =>
        /\ \E again \in {MergeAgain} :
              /\ again.raised = "none"
              /\ again.metadata = default_table_metadata
        /\ MergeColumns(CurrentColumns, LoadedOverrides) = CurrentColumns

MergedTwoColumnsOneStillBlank ==
    /\ MergeDone
    /\ OverridesLoaded
    /\ \E i, j \in DOMAIN CurrentColumns :
          /\ CommentBlank(FetchedColumns[i]) /\ CommentBlank(FetchedColumns[j])
          /\ FetchedColumns[i].Name # FetchedColumns[j].Name
          /\ ~CommentBlank(CurrentColumns[i])
          /\ CommentBlank(CurrentColumns[j])

(***************************************************************************)
(* C10: when the fetched metadata has no top-level field                   *)
(* 'missing_columns', every tag of the 'after' snapshot is "", also for a  *)
(* column that is still undocumented and was tagged "default comment       *)
(* missing" in the 'before' snapshot.                                      *)
(***************************************************************************)
AfterSnapshotHasNoMissingTag ==
    (FetchSucceeded /\ "missing_columns" \notin DOMAIN glue_table
        /\ files[AFTER] # NoFile) =>
        \A name \in DOMAIN files[AFTER].missing_columns :
            files[AFTER].missing_columns[name] = ""

TagLostInAfterSnapshot ==
    /\ "missing_columns" \notin DOMAIN glue_table
    /\ files[BEFORE] # NoFile
    /\ files[AFTER] # NoFile
    /\ \E name \in DOMAIN files[AFTER].missing_columns :
          /\ name \in NullFieldNames
          /\ name \in DOMAIN files[BEFORE].missing_columns
          /\ files[BEFORE].missing_columns[name] = "default comment missing"
          /\ files[AFTER].missing_columns[name] = ""

====
